---- MODULE Spec2Model ----
(***************************************************************************)
(* A model of the OTP attack engine: HarpyAIOTP (src/harpy_ai_otp.py),     *)
(* ProxyMonitor (src/run_harpy.py) and OTPAttacker (src/otp_attacker.py).  *)
(*                                                                         *)
(* An OTP is a sequence of decimal digits.  Probabilities are levels       *)
(* 0..MaxScore (0 is 0.0, MaxScore is 1.0).  The main thread, the monitor  *)
(* thread and the race workers each have a program counter; one action is  *)
(* one step between two points where another thread can be scheduled.      *)
(***************************************************************************)
EXTENDS Integers, Sequences, FiniteSets, TLC

VARIABLES
    \* HarpyAIOTP fields
    history,          \* self.history: sequence of records
    proxies,          \* self.proxies is not None (a burp_proxy was given)
    proxy_monitor,    \* self.proxy_monitor is not None
    encoder,          \* self.encoder.classes_ (the empty set: never fitted)
    classifier,       \* self.classifier: fitted flag and fitted parameters
    \* main thread: position and locals of the running call
    pc, caller, otp, current_proxies, rec, exc,
    i, attempts, max_attempts, digits, ranked,
    \* the network, as the target sees it: one entry per POST issued
    sent,
    \* ProxyMonitor fields, its thread, the process and the proxy itself
    running, alive, force, mpc, exited, proxyUp,
    \* observers (no code reads them)
    beganAlive, falseWrites, probedAfterFalse, loopFailures, sentAtStart,
    \* OTPAttacker: the calling thread and the pool of race_attack
    apc, known_otp, results, tasks, n, count, raised,
    \* the file self.state_file names, as it is on disk
    state_file,
    \* what the last predict_likelihood and send_otp calls returned
    likelihood, resend,
    \* observers of the operations (no code reads them): the history of the
    \* last training; the last operation called ("reload" is a load that
    \* read the file the operation before it had saved); the monitor's probes
    \* since stop()
    trainedOn, lastOp, probesAfterStop

engineVars  == <<history, proxies, proxy_monitor, encoder, classifier>>
mainVars    == <<pc, caller, otp, current_proxies, rec, exc>>
loopVars    == <<i, attempts, max_attempts, digits, ranked>>
monitorVars == <<running, alive, force, mpc, exited, proxyUp>>
ghostVars   == <<beganAlive, falseWrites, probedAfterFalse, loopFailures, sentAtStart>>
attackerVars == <<apc, known_otp, results, tasks, n, count, raised>>
opVars == <<state_file, likelihood, resend, trainedOn, lastOp, probesAfterStop>>
vars == <<engineVars, mainVars, loopVars, sent, monitorVars, ghostVars, attackerVars,
          opVars>>

-----------------------------------------------------------------------------
(* Bounds of the model *)

MaxDigits == 3        \* digit widths 1..MaxDigits
MaxAttempts == 5      \* max_attempts / attempts arguments 0..MaxAttempts
MaxCalls == 2         \* direct verify calls in one run
MaxScore == 2         \* probability levels 0..MaxScore
MaxAIDigits == 1      \* digit widths 1..MaxAIDigits of ai_attack
MaxAIAttempts == 3    \* max_attempts argument of ai_attack 0..MaxAIAttempts
MaxRace == 2          \* attempts argument of race_attack 0..MaxRace
MaxStoredCalls == 1   \* verify calls in a run that also saves and loads

None == "None"

-----------------------------------------------------------------------------
(* Candidates: f"{i:0{digits}d}" *)

RECURSIVE ToDigits(_)
ToDigits(k) == IF k < 10 THEN <<k>> ELSE ToDigits(k \div 10) \o <<k % 10>>

Zeros(k) == [j \in 1..k |-> 0]

\* str(i): no padding.
PadNone(k, width) == ToDigits(k)

\* Zero-pads to at least `width` digits; a longer number is not truncated.
Pad(k, width) ==
    LET ds == ToDigits(k)
    IN  IF Len(ds) >= width THEN ds ELSE Zeros(width - Len(ds)) \o ds

RECURSIVE Pow10(_)
Pow10(d) == IF d = 0 THEN 1 ELSE 10 * Pow10(d - 1)

RECURSIVE Value(_)
Value(ds) == IF Len(ds) = 0 THEN 0
             ELSE 10 * Value(SubSeq(ds, 1, Len(ds) - 1)) + ds[Len(ds)]

-----------------------------------------------------------------------------
(* The target's answers and the transport's failures *)

Bodies == {" OTP Success\n", "Invalid OTP"}

\* r.text.strip().lower()
StripLower(body) ==
    CASE body = " OTP Success\n" -> "otp success"
      [] body = "Invalid OTP"    -> "invalid otp"
      [] OTHER                   -> body

\* "success" in text
ContainsSuccess(text) == text \in {"otp success"}

\* time.time() - start_time of an answered call: positive (one sample value).
ElapsedTimes == {1}

Responses == [status : {200, 400}, body : Bodies, time : ElapsedTimes]

\* requests.exceptions: each class with the classes it is an instance of.
ExceptionBases ==
    [ProxyError       |-> {"ProxyError", "ConnectionError", "RequestException"},
     ConnectionError  |-> {"ConnectionError", "RequestException"},
     ConnectTimeout   |-> {"ConnectTimeout", "ConnectionError", "Timeout",
                           "RequestException"},
     ReadTimeout      |-> {"ReadTimeout", "Timeout", "RequestException"},
     TooManyRedirects |-> {"TooManyRedirects", "RequestException"}]

TransportErrors == DOMAIN ExceptionBases

IsInstance(e, class) == class \in ExceptionBases[e]

\* The except clauses of verify, tried in the order written.
Sentinel(e, o) ==
    IF IsInstance(e, "ProxyError")
    THEN [otp |-> o, status |-> 999, text |-> "proxy_error", time |-> 0]
    ELSE IF IsInstance(e, "ConnectionError")
    THEN [otp |-> o, status |-> 998, text |-> "connection_error", time |-> 0]
    ELSE IF IsInstance(e, "Timeout")
    THEN [otp |-> o, status |-> 997, text |-> "timeout_error", time |-> 0]
    ELSE [otp |-> o, status |-> 996, text |-> "request_error", time |-> 0]

\* The record verify builds from a response.
Record(o, r) ==
    [otp |-> o, status |-> r.status, text |-> StripLower(r.body), time |-> r.time]

\* "success" in rec["text"] or rec["status"] == 200
Hit(r) == ContainsSuccess(r.text) \/ r.status = 200

-----------------------------------------------------------------------------
(* HarpyAIOTP.verify *)

\* verify without the read of proxy_monitor.alive.
CurrentProxiesIgnoringMonitor == proxies

\* current_proxies as verify settles it before the request (lines 84-87);
\* FALSE stands for None, the direct connection.
CurrentProxies == IF proxy_monitor /\ ~alive THEN FALSE ELSE proxies

\* Where verify returns to.
ReturnTo(c) ==
    CASE c = "adaptive_attack" -> "adaptive_check"
      [] c = "ai_attack"       -> "ai_check"
      [] OTHER                 -> "idle"

\* Entry of verify(o), called from `from`: url, payload and start_time are set.
CallVerify(o, from) ==
    /\ pc' = "verify_proxy"
    /\ caller' = from
    /\ otp' = o
    /\ rec' = None
    /\ exc' = None
    /\ beganAlive' = alive
    /\ lastOp' = "verify"
    /\ UNCHANGED <<current_proxies, state_file, likelihood, resend, trainedOn, probesAfterStop>>

\* A direct call of verify by the operator's script.
Verify(o) ==
    /\ ~exited
    /\ pc = "idle"
    /\ CallVerify(o, "main")
    /\ UNCHANGED <<engineVars, loopVars, sent, monitorVars, attackerVars>>
    /\ UNCHANGED <<falseWrites, probedAfterFalse, loopFailures, sentAtStart>>

\* Lines 84-87: the one read of proxy_monitor.alive.
VerifyCheckProxy ==
    /\ ~exited
    /\ pc = "verify_proxy"
    /\ current_proxies' = CurrentProxies
    /\ pc' = "verify_post"
    /\ UNCHANGED <<caller, otp, rec, exc>>
    /\ UNCHANGED <<engineVars, loopVars, sent, monitorVars, ghostVars, attackerVars>>
    /\ UNCHANGED opVars

\* Lines 89-102: the POST is answered; the record is appended and returned.
VerifyResponse(r) ==
    /\ ~exited
    /\ pc = "verify_post"
    /\ sent' = Append(sent, [otp |-> otp, proxied |-> current_proxies])
    /\ rec' = Record(otp, r)
    /\ history' = Append(history, Record(otp, r))
    /\ exc' = None
    /\ pc' = ReturnTo(caller)
    /\ UNCHANGED <<caller, otp, current_proxies>>
    /\ UNCHANGED <<proxies, proxy_monitor, encoder, classifier>>
    /\ UNCHANGED <<loopVars, monitorVars, ghostVars, attackerVars>>
    /\ UNCHANGED opVars

\* Lines 103-114: the POST raises; the sentinel is returned, nothing is appended.
VerifyError(e) ==
    /\ ~exited
    /\ pc = "verify_post"
    /\ sent' = Append(sent, [otp |-> otp, proxied |-> current_proxies])
    /\ rec' = Sentinel(e, otp)
    /\ exc' = e
    /\ pc' = ReturnTo(caller)
    /\ UNCHANGED <<caller, otp, current_proxies>>
    /\ UNCHANGED <<engineVars, loopVars, monitorVars, ghostVars, attackerVars>>
    /\ UNCHANGED opVars

-----------------------------------------------------------------------------
(* ProxyMonitor and proxy_alive *)

\* proxy_alive(proxy_url): a socket connection to the proxy succeeds.
proxy_alive == proxyUp

\* The proxy goes down or comes back (the monitor's process still runs).
ProxyToggle ==
    /\ ~exited
    /\ proxy_monitor
    /\ proxyUp' = ~proxyUp
    /\ UNCHANGED <<running, alive, force, mpc, exited>>
    /\ UNCHANGED <<engineVars, mainVars, loopVars, sent, ghostVars, attackerVars>>
    /\ UNCHANGED opVars

\* start(): the daemon thread enters _monitor.
MonitorStart ==
    /\ ~exited
    /\ proxy_monitor
    /\ pc = "idle"
    /\ mpc = "unstarted"
    /\ mpc' = "loop"
    /\ UNCHANGED <<running, alive, force, exited, proxyUp>>
    /\ UNCHANGED <<engineVars, mainVars, loopVars, sent, ghostVars, attackerVars>>
    /\ UNCHANGED opVars

\* A loop that never reads running.
WhileTrue == TRUE

\* The loop test of _monitor (line 49).
WhileRunning == running

\* while self.running:
MonitorLoop ==
    /\ ~exited
    /\ mpc = "loop"
    /\ mpc' = IF WhileRunning THEN "probe" ELSE "done"
    /\ UNCHANGED <<running, alive, force, exited, proxyUp>>
    /\ UNCHANGED <<engineVars, mainVars, loopVars, sent, ghostVars, attackerVars>>
    /\ UNCHANGED opVars

\* if not proxy_alive(self.proxy_url):
MonitorProbe ==
    /\ ~exited
    /\ mpc = "probe"
    /\ mpc' = IF proxy_alive THEN "sleep" ELSE "down"
    /\ probedAfterFalse' = (probedAfterFalse \/ falseWrites > 0)
    /\ loopFailures' = IF proxy_alive THEN loopFailures ELSE loopFailures + 1
    /\ UNCHANGED <<beganAlive, falseWrites, sentAtStart>>
    /\ UNCHANGED <<running, alive, force, exited, proxyUp>>
    /\ UNCHANGED <<engineVars, mainVars, loopVars, sent, attackerVars>>
    /\ probesAfterStop' = IF running \/ probesAfterStop >= 2 THEN probesAfterStop
                          ELSE probesAfterStop + 1
    /\ UNCHANGED <<state_file, likelihood, resend, trainedOn, lastOp>>

\* _monitor without the force branch: it only breaks.
AfterDownNoAbort == "done"

\* What follows self.alive = False: os._exit(1) in force mode, else break.
AfterDown == IF force THEN "abort" ELSE "done"

\* self.alive = False
MonitorDown ==
    /\ ~exited
    /\ mpc = "down"
    /\ alive' = FALSE
    /\ falseWrites' = falseWrites + 1
    /\ mpc' = AfterDown
    /\ UNCHANGED <<beganAlive, probedAfterFalse, loopFailures, sentAtStart>>
    /\ UNCHANGED <<running, force, exited, proxyUp>>
    /\ UNCHANGED <<engineVars, mainVars, loopVars, sent, attackerVars>>
    /\ UNCHANGED opVars

\* os._exit(1): the process is gone, with every thread in it.
MonitorAbort ==
    /\ ~exited
    /\ mpc = "abort"
    /\ exited' = TRUE
    /\ mpc' = "done"
    /\ UNCHANGED <<running, alive, force, proxyUp>>
    /\ UNCHANGED <<engineVars, mainVars, loopVars, sent, ghostVars, attackerVars>>
    /\ UNCHANGED opVars

\* time.sleep(self.check_interval)
MonitorSleep ==
    /\ ~exited
    /\ mpc = "sleep"
    /\ mpc' = "loop"
    /\ UNCHANGED <<running, alive, force, exited, proxyUp>>
    /\ UNCHANGED <<engineVars, mainVars, loopVars, sent, ghostVars, attackerVars>>
    /\ UNCHANGED opVars

\* stop(), where it changes anything: running is True.
MonitorStop ==
    /\ ~exited
    /\ proxy_monitor
    /\ pc = "idle"
    /\ running
    /\ running' = FALSE
    /\ UNCHANGED <<alive, force, mpc, exited, proxyUp>>
    /\ UNCHANGED <<engineVars, mainVars, loopVars, sent, ghostVars, attackerVars>>
    /\ UNCHANGED opVars

-----------------------------------------------------------------------------
(* HarpyAIOTP.adaptive_attack *)

\* adaptive_attack(m, d) is entered.
AdaptiveAttack(m, d) ==
    /\ ~exited
    /\ pc = "idle"
    /\ pc' = "adaptive_next"
    /\ i' = 0
    /\ max_attempts' = m
    /\ digits' = d
    /\ sentAtStart' = Len(sent)
    /\ UNCHANGED <<attempts, ranked>>
    /\ UNCHANGED <<caller, otp, current_proxies, rec, exc>>
    /\ UNCHANGED <<beganAlive, falseWrites, probedAfterFalse, loopFailures>>
    /\ UNCHANGED <<engineVars, sent, monitorVars, attackerVars>>
    /\ UNCHANGED opVars

\* for i in range(max_attempts): otp = f"{i:0{digits}d}"; rec = self.verify(otp)
AdaptiveNext ==
    /\ ~exited
    /\ pc = "adaptive_next"
    /\ IF i < max_attempts
       THEN CallVerify(Pad(i, digits), "adaptive_attack")
       ELSE /\ pc' = "idle"
            /\ UNCHANGED <<caller, otp, current_proxies, rec, exc, beganAlive>>
            /\ UNCHANGED opVars
    /\ UNCHANGED <<falseWrites, probedAfterFalse, loopFailures, sentAtStart>>
    /\ UNCHANGED <<engineVars, loopVars, sent, monitorVars, attackerVars>>

\* Lines 222-224.  On a hit the log call evaluates Fore.GREEN, a name this
\* module never imports: NameError leaves adaptive_attack.
AdaptiveCheck ==
    /\ ~exited
    /\ pc = "adaptive_check"
    /\ IF Hit(rec)
       THEN /\ pc' = "raised"
            /\ raised' = "NameError"
            /\ UNCHANGED i
       ELSE /\ pc' = "adaptive_next"
            /\ i' = i + 1
            /\ UNCHANGED raised
    /\ UNCHANGED <<attempts, max_attempts, digits, ranked>>
    /\ UNCHANGED <<caller, otp, current_proxies, rec, exc>>
    /\ UNCHANGED <<apc, known_otp, results, tasks, n, count>>
    /\ UNCHANGED <<engineVars, sent, monitorVars, ghostVars>>
    /\ UNCHANGED opVars

-----------------------------------------------------------------------------
(* HarpyAIOTP.train_model and predict_likelihood *)

\* The label of a history record (line 136).
Label(r) == IF Hit(r) THEN "success" ELSE "fail"

\* First digits a fitted forest may score above 0 (the others score 0).
ScoredDigits == {0, 1}

\* classifier.fit(X, y_encoded): the forest is outside the model; what it
\* learnt is any scoring of the first digit with one top digit (hot) and one
\* runner-up (warm).  A forest fitted on a single class knows that class only.
Fitted(labels) ==
    IF Cardinality(labels) = 1
    THEN {[fitted |-> TRUE, n_classes |-> 1, hot |-> 0, warm |-> 0]}
    ELSE [fitted : {TRUE}, n_classes : {2}, hot : ScoredDigits, warm : ScoredDigits]

\* encoder.fit_transform(y): classes_ becomes the labels of this call.
FitTransform(y) == y

\* train_model(): no record, no change; else the encoder is refitted on the
\* labels and the classifier on the features.  The features of records that
\* verify built are numbers, on which fit does not raise: the except clauses
\* (lines 142-145) are not taken here.
TrainModel ==
    /\ ~exited
    /\ pc = "idle"
    /\ IF history = <<>>
       THEN UNCHANGED <<encoder, classifier, trainedOn>>
       ELSE LET y == {Label(history[k]) : k \in 1..Len(history)}
            IN  /\ encoder' = FitTransform(y)
                /\ classifier' \in Fitted(y)
                /\ trainedOn' = [done |-> TRUE, history |-> history,
                                 both |-> trainedOn.both \/ Cardinality(y) = 2]
    /\ lastOp' = "train"
    /\ UNCHANGED <<state_file, likelihood, resend, probesAfterStop>>
    /\ UNCHANGED <<history, proxies, proxy_monitor>>
    /\ UNCHANGED <<mainVars, loopVars, sent, monitorVars, ghostVars, attackerVars>>

\* classifier.predict_proba([features])[0] of a fitted classifier: one
\* level per class the classifier was fitted on, in encoded order.
PredictProba(first) ==
    IF classifier.n_classes = 1 THEN <<MaxScore>>
    ELSE LET s == IF first = classifier.hot THEN MaxScore
                  ELSE IF first = classifier.warm THEN 1
                  ELSE 0
         IN  <<MaxScore - s, s>>

\* encoder.transform(["success"])[0]: classes_ is sorted, "fail" < "success".
SuccessIdx == IF "fail" \in encoder THEN 1 ELSE 0

\* predict_likelihood without the look at encoder.classes_: the first column
\* of predict_proba.
PredictFirstColumn(o) ==
    LET first == IF Len(o) > 0 THEN o[1] ELSE 0
    IN  IF ~classifier.fitted THEN 0 ELSE PredictProba(first)[1]

\* predict_likelihood(o): 0.0 when predict_proba raises (not fitted), when the
\* encoder never saw "success", or when the index is out of range.
predict_likelihood(o) ==
    LET first == IF Len(o) > 0 THEN o[1] ELSE 0
    IN  IF ~classifier.fitted THEN 0
        ELSE IF "success" \in encoder
        THEN IF SuccessIdx + 1 <= Len(PredictProba(first))
             THEN PredictProba(first)[SuccessIdx + 1]
             ELSE 0
        ELSE 0

-----------------------------------------------------------------------------
(* HarpyAIOTP.ai_attack *)

\* hasattr(self.classifier, 'predict_proba'): RandomForestClassifier defines
\* the method on the class, fitted or not.
HasPredictProba == TRUE

\* [f"{i:0{digits}d}" for i in range(10**digits)]
Candidates(d) == [k \in 1..Pow10(d) |-> Pad(k - 1, d)]

\* The candidates of one score, in the order they come in.
Bucket(cands, level) ==
    LET HasLevel(x) == predict_likelihood(x) = level
    IN  SelectSeq(cands, HasLevel)

RECURSIVE Buckets(_, _)
Buckets(cands, level) ==
    IF level < 0 THEN <<>>
    ELSE Bucket(cands, level) \o Buckets(cands, level - 1)

Reverse(s) == [k \in 1..Len(s) |-> s[Len(s) + 1 - k]]

RECURSIVE BucketsUp(_, _)
BucketsUp(cands, level) ==
    IF level > MaxScore THEN <<>>
    ELSE Bucket(cands, level) \o BucketsUp(cands, level + 1)

\* sorted(candidates, key=...)[::-1]: descending, equal scores reversed.
SortedThenReversed(cands) == Reverse(BucketsUp(cands, 0))

\* sorted(candidates, key=predict_likelihood, reverse=True): a stable sort,
\* descending; the scores are the levels MaxScore..0, so the result is their
\* buckets one after the other.
Sorted(cands) == Buckets(cands, MaxScore)

\* ai_attack(m, d) up to the loop: the guard, the candidates, the ranking.
AiAttack(m, d) ==
    /\ ~exited
    /\ pc = "idle"
    /\ IF ~HasPredictProba
       THEN UNCHANGED <<pc, loopVars, sentAtStart>>
       ELSE /\ ranked' = Sorted(Candidates(d))
            /\ attempts' = 0
            /\ i' = 1
            /\ max_attempts' = m
            /\ digits' = d
            /\ sentAtStart' = Len(sent)
            /\ pc' = "ai_next"
    /\ UNCHANGED <<caller, otp, current_proxies, rec, exc>>
    /\ UNCHANGED <<beganAlive, falseWrites, probedAfterFalse, loopFailures>>
    /\ UNCHANGED <<engineVars, sent, monitorVars, attackerVars>>
    /\ UNCHANGED opVars

\* for otp in ranked: rec = self.verify(otp)
AiNext ==
    /\ ~exited
    /\ pc = "ai_next"
    /\ IF i <= Len(ranked)
       THEN CallVerify(ranked[i], "ai_attack")
       ELSE /\ pc' = "idle"
            /\ UNCHANGED <<caller, otp, current_proxies, rec, exc, beganAlive>>
            /\ UNCHANGED opVars
    /\ UNCHANGED <<falseWrites, probedAfterFalse, loopFailures, sentAtStart>>
    /\ UNCHANGED <<engineVars, loopVars, sent, monitorVars, attackerVars>>

\* Lines 202-208.  On a hit the log call evaluates Fore.GREEN: NameError.
AiCheck ==
    /\ ~exited
    /\ pc = "ai_check"
    /\ attempts' = attempts + 1
    /\ IF Hit(rec)
       THEN /\ pc' = "raised"
            /\ raised' = "NameError"
            /\ UNCHANGED i
       ELSE IF attempts + 1 >= max_attempts
       THEN /\ pc' = "idle"
            /\ UNCHANGED <<i, raised>>
       ELSE /\ pc' = "ai_next"
            /\ i' = i + 1
            /\ UNCHANGED raised
    /\ UNCHANGED <<max_attempts, digits, ranked>>
    /\ UNCHANGED <<caller, otp, current_proxies, rec, exc>>
    /\ UNCHANGED <<apc, known_otp, results, tasks, n, count>>
    /\ UNCHANGED <<engineVars, sent, monitorVars, ghostVars>>
    /\ UNCHANGED opVars

-----------------------------------------------------------------------------
(* OTPAttacker: verify_otp, replay_attack, random_bypass, race_attack *)

\* What verify_otp sends: session.post(url, json=payload), no proxies argument.
Posted(o) == [otp |-> o, proxied |-> FALSE]

\* What verify_otp returns: (r.status_code, r.text), the body as received.
StatusText(r) == <<r.status, r.body>>

\* replay_attack(o): results = []
ReplayAttack(o) ==
    /\ apc = "idle"
    /\ apc' = "replay"
    /\ known_otp' = o
    /\ results' = <<>>
    /\ count' = 0
    /\ UNCHANGED <<tasks, n, raised>>
    /\ UNCHANGED <<engineVars, mainVars, loopVars, sent, monitorVars, ghostVars>>
    /\ UNCHANGED opVars

\* One pass of for _ in range(3), verify_otp answered: the pair is appended.
ReplayCall(r) ==
    /\ apc = "replay"
    /\ count < 3
    /\ sent' = Append(sent, Posted(known_otp))
    /\ results' = Append(results, StatusText(r))
    /\ count' = count + 1
    /\ UNCHANGED <<apc, known_otp, tasks, n, raised>>
    /\ UNCHANGED <<engineVars, mainVars, loopVars, monitorVars, ghostVars>>
    /\ UNCHANGED opVars

\* One pass, session.post raising: verify_otp catches nothing, nor does
\* replay_attack; the exception reaches the caller.
ReplayRaise(e) ==
    /\ apc = "replay"
    /\ count < 3
    /\ sent' = Append(sent, Posted(known_otp))
    /\ apc' = "raised"
    /\ raised' = e
    /\ UNCHANGED <<known_otp, results, tasks, n, count>>
    /\ UNCHANGED <<engineVars, mainVars, loopVars, monitorVars, ghostVars>>
    /\ UNCHANGED opVars

\* return results
ReplayReturn ==
    /\ apc = "replay"
    /\ count = 3
    /\ apc' = "idle"
    /\ UNCHANGED <<known_otp, results, tasks, n, count, raised>>
    /\ UNCHANGED <<engineVars, mainVars, loopVars, sent, monitorVars, ghostVars>>
    /\ UNCHANGED opVars

\* "".join(random.choice("0123456789") for _ in range(6)): two of the 10^6.
RandomOtps == {Pad(0, 6), Pad(999999, 6)}

\* random_bypass(a)
RandomBypass(a) ==
    /\ apc = "idle"
    /\ apc' = "random"
    /\ n' = a
    /\ count' = 0
    /\ UNCHANGED <<known_otp, results, tasks, raised>>
    /\ UNCHANGED <<engineVars, mainVars, loopVars, sent, monitorVars, ghostVars>>
    /\ UNCHANGED opVars

\* One pass of for _ in range(attempts), verify_otp answered.
RandomCall(o, r) ==
    /\ apc = "random"
    /\ count < n
    /\ sent' = Append(sent, Posted(o))
    /\ count' = count + 1
    /\ UNCHANGED <<apc, known_otp, results, tasks, n, raised>>
    /\ UNCHANGED <<engineVars, mainVars, loopVars, monitorVars, ghostVars>>
    /\ UNCHANGED opVars

\* One pass, session.post raising.
RandomRaise(o, e) ==
    /\ apc = "random"
    /\ count < n
    /\ sent' = Append(sent, Posted(o))
    /\ apc' = "raised"
    /\ raised' = e
    /\ UNCHANGED <<known_otp, results, tasks, n, count>>
    /\ UNCHANGED <<engineVars, mainVars, loopVars, monitorVars, ghostVars>>
    /\ UNCHANGED opVars

\* The loop is exhausted.
RandomReturn ==
    /\ apc = "random"
    /\ count = n
    /\ apc' = "idle"
    /\ UNCHANGED <<known_otp, results, tasks, n, count, raised>>
    /\ UNCHANGED <<engineVars, mainVars, loopVars, sent, monitorVars, ghostVars>>
    /\ UNCHANGED opVars

\* A future of the pool.
Task(state, status, body, e) ==
    [state |-> state, status |-> status, body |-> body, exc |-> e]

Pending == Task("pending", 0, "", None)

\* race_attack(o, a): ThreadPoolExecutor(max_workers=a) raises ValueError
\* when a <= 0; else pool.map submits the a calls at once.
RaceAttack(o, a) ==
    /\ apc = "idle"
    /\ known_otp' = o
    /\ n' = a
    /\ results' = <<>>
    /\ IF a <= 0
       THEN /\ apc' = "raised"
            /\ raised' = "ValueError"
            /\ UNCHANGED tasks
       ELSE /\ apc' = "race_collect"
            /\ tasks' = [k \in 1..a |-> Pending]
            /\ UNCHANGED raised
    /\ UNCHANGED count
    /\ UNCHANGED <<engineVars, mainVars, loopVars, sent, monitorVars, ghostVars>>
    /\ UNCHANGED opVars

\* A worker thread takes the next work item off the queue (first in, first out).
TaskStart(k) ==
    /\ k \in 1..Len(tasks)
    /\ tasks[k].state = "pending"
    /\ \A j \in 1..(k - 1) : tasks[j].state # "pending"
    /\ tasks' = [tasks EXCEPT ![k].state = "running"]
    /\ UNCHANGED <<apc, known_otp, results, n, count, raised>>
    /\ UNCHANGED <<engineVars, mainVars, loopVars, sent, monitorVars, ghostVars>>
    /\ UNCHANGED opVars

\* attempt() in a worker: verify_otp answered.
TaskCall(k, r) ==
    /\ k \in 1..Len(tasks)
    /\ tasks[k].state = "running"
    /\ sent' = Append(sent, Posted(known_otp))
    /\ tasks' = [tasks EXCEPT ![k] = Task("done", r.status, r.body, None)]
    /\ UNCHANGED <<apc, known_otp, results, n, count, raised>>
    /\ UNCHANGED <<engineVars, mainVars, loopVars, monitorVars, ghostVars>>
    /\ UNCHANGED opVars

\* attempt() in a worker: session.post raises; the future holds the exception.
TaskRaise(k, e) ==
    /\ k \in 1..Len(tasks)
    /\ tasks[k].state = "running"
    /\ sent' = Append(sent, Posted(known_otp))
    /\ tasks' = [tasks EXCEPT ![k] = Task("failed", 0, "", e)]
    /\ UNCHANGED <<apc, known_otp, results, n, count, raised>>
    /\ UNCHANGED <<engineVars, mainVars, loopVars, monitorVars, ghostVars>>
    /\ UNCHANGED opVars

\* list(pool.map(...)): the results are taken in submission order, each one
\* waited for.
RaceCollect ==
    /\ apc = "race_collect"
    /\ Len(results) < n
    /\ tasks[Len(results) + 1].state = "done"
    /\ results' = Append(results, <<tasks[Len(results) + 1].status,
                                    tasks[Len(results) + 1].body>>)
    /\ UNCHANGED <<apc, known_otp, tasks, n, count, raised>>
    /\ UNCHANGED <<engineVars, mainVars, loopVars, sent, monitorVars, ghostVars>>
    /\ UNCHANGED opVars

\* The awaited future holds an exception: result() raises it in the caller,
\* and the iterator of pool.map cancels the futures not yet started.
RaceCollectRaise ==
    /\ apc = "race_collect"
    /\ Len(results) < n
    /\ tasks[Len(results) + 1].state = "failed"
    /\ raised' = tasks[Len(results) + 1].exc
    /\ tasks' = [k \in 1..Len(tasks) |->
                    IF tasks[k].state = "pending"
                    THEN [tasks[k] EXCEPT !.state = "cancelled"]
                    ELSE tasks[k]]
    /\ apc' = "race_shutdown"
    /\ UNCHANGED <<known_otp, results, n, count>>
    /\ UNCHANGED <<engineVars, mainVars, loopVars, sent, monitorVars, ghostVars>>
    /\ UNCHANGED opVars

\* All results are in: the with block is left.
RaceCollected ==
    /\ apc = "race_collect"
    /\ Len(results) = n
    /\ apc' = "race_shutdown"
    /\ UNCHANGED <<known_otp, results, tasks, n, count, raised>>
    /\ UNCHANGED <<engineVars, mainVars, loopVars, sent, monitorVars, ghostVars>>
    /\ UNCHANGED opVars

\* Leaving the with block: shutdown(wait=True) joins the workers; then
\* return results, or the exception goes on to the caller.
RaceShutdown ==
    /\ apc = "race_shutdown"
    /\ \A k \in 1..Len(tasks) : tasks[k].state \notin {"pending", "running"}
    /\ apc' = IF raised = None THEN "idle" ELSE "raised"
    /\ UNCHANGED <<known_otp, results, tasks, n, count, raised>>
    /\ UNCHANGED <<engineVars, mainVars, loopVars, sent, monitorVars, ghostVars>>
    /\ UNCHANGED opVars

-----------------------------------------------------------------------------
(* HarpyAIOTP.save_state and load_state: the history as JSON text *)

\* A JSON value of the file: a string of digits (an otp), another string, or
\* a number.
JsonDigits(ds) == [kind |-> "digits", digits |-> ds, chars |-> "", num |-> 0]
JsonString(t) == [kind |-> "string", digits |-> <<>>, chars |-> t, num |-> 0]
JsonNumber(x) == [kind |-> "number", digits |-> <<>>, chars |-> "", num |-> x]

\* A record written without its time.
DumpsNoTime(r) ==
    << [key |-> "otp", value |-> JsonDigits(r.otp)],
       [key |-> "status", value |-> JsonNumber(r.status)],
       [key |-> "text", value |-> JsonString(r.text)] >>

\* json.dump of one record: a JSON object, its members in the order the dict
\* was built (otp, status, text, time).
Dumps(r) ==
    << [key |-> "otp", value |-> JsonDigits(r.otp)],
       [key |-> "status", value |-> JsonNumber(r.status)],
       [key |-> "text", value |-> JsonString(r.text)],
       [key |-> "time", value |-> JsonNumber(r.time)] >>

\* json.dump(self.history, f, indent=4): a JSON array, one object per record.
Dump(h) == [k \in 1..Len(h) |-> Dumps(h[k])]

\* The Python value of a JSON value.
Loads(v) ==
    CASE v.kind = "digits" -> v.digits
      [] v.kind = "string" -> v.chars
      [] OTHER             -> v.num

\* json.load of one object: a dict of its members (of a repeated key the
\* last member counts).
LoadObject(obj) ==
    [key \in {obj[j].key : j \in 1..Len(obj)} |->
        LET last == CHOOSE j \in 1..Len(obj) :
                        /\ obj[j].key = key
                        /\ \A l \in (j + 1)..Len(obj) : obj[l].key # key
        IN  Loads(obj[last].value)]

\* json.load(f) of a complete array.
Load(items) == [k \in 1..Len(items) |-> LoadObject(items[k])]

\* The file: absent; or present with the items written to it, complete (a
\* whole JSON array) or not.
Missing == [exists |-> FALSE, complete |-> FALSE, items |-> <<>>]

\* open(state_file, "w") has emptied the file and the write did not finish.
Truncated == [exists |-> TRUE, complete |-> FALSE, items |-> <<>>]

Written(h) == [exists |-> TRUE, complete |-> TRUE, items |-> Dump(h)]

\* How a save_state call can go: the file is written; open raises; the write
\* raises after open has emptied the file.
SaveOutcomes == {"written", "open_raises", "write_raises"}

\* save_state(): whatever is raised is logged, the call returns.
SaveState(outcome) ==
    /\ ~exited
    /\ pc = "idle"
    /\ state_file' = CASE outcome = "written"      -> Written(history)
                       [] outcome = "write_raises" -> Truncated
                       [] OTHER                    -> state_file
    /\ lastOp' = IF outcome = "written" THEN "save" ELSE "save_failed"
    /\ UNCHANGED <<likelihood, resend, trainedOn, probesAfterStop>>
    /\ UNCHANGED <<engineVars, mainVars, loopVars, sent, monitorVars, ghostVars>>
    /\ UNCHANGED attackerVars

\* json.load(f) returns: the file is there, can be read and holds a whole array.
Loadable(readable) == state_file.exists /\ readable /\ state_file.complete

\* load_state(): self.history = json.load(f); FileNotFoundError,
\* JSONDecodeError and any other exception are logged, the history stays.
LoadState(readable) ==
    /\ ~exited
    /\ pc = "idle"
    /\ history' = IF Loadable(readable) THEN Load(state_file.items) ELSE history
    /\ lastOp' = IF ~Loadable(readable) THEN "load_failed"
                  ELSE IF lastOp = "save" THEN "reload"
                  ELSE "load"
    /\ UNCHANGED <<state_file, likelihood, resend, trainedOn, probesAfterStop>>
    /\ UNCHANGED <<proxies, proxy_monitor, encoder, classifier>>
    /\ UNCHANGED <<mainVars, loopVars, sent, monitorVars, ghostVars, attackerVars>>

\* A call of predict_likelihood(o) by the operator's script.
PredictLikelihood(o) ==
    /\ ~exited
    /\ pc = "idle"
    /\ likelihood' = [otp |-> o, p |-> predict_likelihood(o)]
    /\ lastOp' = "predict"
    /\ UNCHANGED <<state_file, resend, trainedOn, probesAfterStop>>
    /\ UNCHANGED <<engineVars, mainVars, loopVars, sent, monitorVars, ghostVars>>
    /\ UNCHANGED attackerVars

-----------------------------------------------------------------------------
(* OTPAttacker.send_otp *)

NoResend == [method |-> "", status |-> 0, body |-> "", exc |-> None]

Methods == {"email"}

\* A send_otp that records what it got as a verification attempt.
ResentRecorded(h, r) == Append(h, Record(<<>>, r))

\* The history after send_otp: no statement of send_otp touches one.
Resent(h, r) == h

\* send_otp(method), answered: (r.status_code, r.text) is returned.
SendOtp(method, r) ==
    /\ ~exited
    /\ apc = "idle"
    /\ resend' = [method |-> method, status |-> r.status, body |-> r.body, exc |-> None]
    /\ history' = Resent(history, r)
    /\ lastOp' = "resend"
    /\ UNCHANGED <<state_file, likelihood, trainedOn, probesAfterStop>>
    /\ UNCHANGED <<proxies, proxy_monitor, encoder, classifier>>
    /\ UNCHANGED <<mainVars, loopVars, sent, monitorVars, ghostVars, attackerVars>>

\* send_otp(method), session.post raising: the exception reaches the caller.
SendOtpRaise(method, e) ==
    /\ ~exited
    /\ apc = "idle"
    /\ resend' = [method |-> method, status |-> 0, body |-> "", exc |-> e]
    /\ apc' = "raised"
    /\ raised' = e
    /\ lastOp' = "resend"
    /\ UNCHANGED <<known_otp, results, tasks, n, count>>
    /\ UNCHANGED <<state_file, likelihood, trainedOn, probesAfterStop>>
    /\ UNCHANGED <<engineVars, mainVars, loopVars, sent, monitorVars, ghostVars>>

-----------------------------------------------------------------------------
(* Initial states *)

Unfitted == [fitted |-> FALSE, n_classes |-> 0, hot |-> 0, warm |-> 0]

\* HarpyAIOTP.__init__
InitEngine ==
    /\ history = <<>>
    /\ encoder = {}
    /\ classifier = Unfitted
    /\ proxies \in BOOLEAN

InitMain ==
    /\ pc = "idle"
    /\ caller = None
    /\ otp = <<>>
    /\ current_proxies = FALSE
    /\ rec = None
    /\ exc = None
    /\ i = 0
    /\ attempts = 0
    /\ max_attempts = 0
    /\ digits = 0
    /\ ranked = <<>>
    /\ sent = <<>>
    /\ sentAtStart = 0
    /\ beganAlive = TRUE
    /\ likelihood = [otp |-> <<>>, p |-> 0]
    /\ trainedOn = [done |-> FALSE, history |-> <<>>, both |-> FALSE]
    /\ lastOp = "none"

\* ProxyMonitor.__init__: running = True, alive = proxy_alive(proxy_url).
InitMonitor ==
    /\ proxy_monitor = TRUE
    /\ force \in BOOLEAN
    /\ proxyUp \in BOOLEAN
    /\ running = TRUE
    /\ alive = proxy_alive
    /\ mpc = "unstarted"
    /\ exited = FALSE
    /\ falseWrites = IF alive THEN 0 ELSE 1
    /\ probedAfterFalse = FALSE
    /\ loopFailures = 0
    /\ probesAfterStop = 0

\* No monitor was built: proxy_monitor is None.
InitNoMonitor ==
    /\ proxy_monitor = FALSE
    /\ force = FALSE
    /\ proxyUp = TRUE
    /\ running = FALSE
    /\ alive = TRUE
    /\ mpc = "unstarted"
    /\ exited = FALSE
    /\ falseWrites = 0
    /\ probedAfterFalse = FALSE
    /\ loopFailures = 0
    /\ probesAfterStop = 0

\* OTPAttacker.__init__
InitAttacker ==
    /\ apc = "idle"
    /\ known_otp = <<>>
    /\ results = <<>>
    /\ tasks = <<>>
    /\ n = 0
    /\ count = 0
    /\ raised = None
    /\ resend = NoResend

\* No state file is on disk.
InitNoFile == state_file = Missing

-----------------------------------------------------------------------------
(* The engine with its proxy monitor: direct verify calls, the monitor      *)
(* thread, stop()                                                           *)

Init ==
    /\ InitEngine
    /\ InitMain
    /\ InitMonitor \/ InitNoMonitor
    /\ InitAttacker
    /\ InitNoFile

\* The otps of the direct calls, at most MaxCalls of them in a run.
DirectOtps == {Pad(k, MaxDigits) : k \in 0..1}

DirectVerify(o) == Len(sent) < MaxCalls /\ Verify(o)

Next ==
    \/ \E o \in DirectOtps : DirectVerify(o)
    \/ VerifyCheckProxy
    \/ \E r \in Responses : VerifyResponse(r)
    \/ \E e \in TransportErrors : VerifyError(e)
    \/ ProxyToggle
    \/ MonitorStart
    \/ MonitorLoop
    \/ MonitorProbe
    \/ MonitorDown
    \/ MonitorAbort
    \/ MonitorSleep
    \/ MonitorStop

Spec == Init /\ [][Next]_vars

-----------------------------------------------------------------------------
(* Claims about verify and the proxy monitor, checked under Spec *)

\* C1: every verify call appends exactly one record, sentinel failures
\* included: when no call is in progress the history holds as many records
\* as verify was called.
C1_EveryCallAppends == pc = "idle" => Len(history) = Len(sent)

\* C3: a monitor with force = False that observed a down proxy wrote False to
\* alive exactly once (construction included), made no probe after that write,
\* and its loop has ended once the loop saw the failure.
C3_OneShotDetection ==
    (proxy_monitor /\ ~force /\ ~alive) =>
        /\ falseWrites = 1
        /\ ~probedAfterFalse
        /\ (loopFailures > 0 => mpc = "done")

\* The request the step sends, when the step sends one.
SendsRequest == Len(sent') = Len(sent) + 1
LastSent == sent'[Len(sent')]

\* C4: a verify call that began with the monitor's alive flag False sends its
\* request with no proxy; alive never returns to True; a call whose request
\* leaves while alive is True, or with no monitor, uses the configured proxy.
C4_DirectWhenDown ==
    [][ /\ (SendsRequest /\ proxy_monitor /\ ~beganAlive) => ~LastSent.proxied
        /\ (SendsRequest /\ (~proxy_monitor \/ alive)) => LastSent.proxied = proxies
        /\ ~alive => ~alive' ]_vars

\* C4's case: a proxy is configured, the monitor has seen it down, and the
\* call that began after that went out directly.
C4_Witness ==
    /\ proxies /\ proxy_monitor /\ ~alive /\ ~beganAlive
    /\ pc = "idle"
    /\ Len(sent) > 0
    /\ ~sent[Len(sent)].proxied

C6_SentinelMapping ==
    (pc = "idle" /\ exc # None) =>
        /\ rec.otp = otp
        /\ rec.time = 0
        /\ rec.status =
              IF IsInstance(exc, "ProxyError") THEN 999
              ELSE IF IsInstance(exc, "Timeout") THEN 997
              ELSE IF IsInstance(exc, "ConnectionError") THEN 998
              ELSE 996
        /\ rec.text =
              IF IsInstance(exc, "ProxyError") THEN "proxy_error"
              ELSE IF IsInstance(exc, "Timeout") THEN "timeout_error"
              ELSE IF IsInstance(exc, "ConnectionError") THEN "connection_error"
              ELSE "request_error"

-----------------------------------------------------------------------------
(* The sequential strategy on a fresh engine *)

InitSequential ==
    /\ InitEngine
    /\ InitMain
    /\ InitNoMonitor
    /\ InitAttacker
    /\ InitNoFile

\* One attack in a run.
Sequential(m, d) == digits = 0 /\ AdaptiveAttack(m, d)

NextSequential ==
    \/ \E m \in 0..MaxAttempts, d \in 1..MaxDigits : Sequential(m, d)
    \/ AdaptiveNext
    \/ AdaptiveCheck
    \/ VerifyCheckProxy
    \/ \E r \in Responses : VerifyResponse(r)
    \/ \E e \in TransportErrors : VerifyError(e)

SpecSequential == InitSequential /\ [][NextSequential]_vars

\* C8: adaptive_attack submits the zero-padded digit strings in increasing
\* numeric order from 0, one call at a time, and stops at the first hit or
\* after max_attempts calls: no call follows a hit, and with digits = 3,
\* max_attempts = 5 and only 400 answers the calls are 000, 001, 002, 003, 004.
C8_SequentialOrder ==
    /\ \A k \in 1..Len(sent) :
          /\ Value(sent[k].otp) = k - 1
          /\ (k <= Pow10(digits) => Len(sent[k].otp) = digits)
    /\ Len(sent) <= max_attempts
    /\ pc \in {"verify_proxy", "verify_post"} => Len(sent) = i
    /\ \A k \in 1..Len(history) :
          Hit(history[k]) =>
              /\ k = Len(history)
              /\ rec = history[k]
              /\ history[k].otp = sent[Len(sent)].otp
              /\ pc \in {"adaptive_check", "raised"}
    /\ pc = "raised" => Hit(rec)
    /\ (pc = "idle" /\ digits > 0) => Len(sent) = max_attempts
    /\ (pc = "idle" /\ digits = 3 /\ max_attempts = 5) =>
          [k \in 1..Len(sent) |-> sent[k].otp] =
              << <<0, 0, 0>>, <<0, 0, 1>>, <<0, 0, 2>>, <<0, 0, 3>>, <<0, 0, 4>> >>

\* C8's case: the scenario has run to its end, five answers and no hit.
C8_Witness ==
    /\ pc = "idle" /\ digits = 3 /\ max_attempts = 5
    /\ Len(sent) = 5
    /\ Len(history) = 5
    /\ \A k \in 1..5 : history[k].status = 400 /\ ~Hit(history[k])

\* C21: when a verification call of the strategy is a hit, the strategy
\* stops and returns normally: reporting the hit raises nothing, and the
\* strategy is never left by an exception.
C21_HitReturnsNormally == pc # "raised" /\ raised = None

-----------------------------------------------------------------------------
(* Fingerprinting calls, training and the AI-ranked strategy *)

InitAI ==
    /\ InitEngine
    /\ ~proxies
    /\ InitMain
    /\ InitNoMonitor
    /\ InitAttacker
    /\ InitNoFile

\* The fingerprinting calls that collect the training data: at most
\* MaxCalls, answered 200 with a success body or 400 with a failure body, or
\* failing in the transport (one kind of failure stands for all: the engine
\* handles them alike but for the sentinel, which Spec covers).
Fingerprint == Len(sent) < MaxCalls /\ digits = 0 /\ Verify(Pad(0, MaxAIDigits))

AIResponses ==
    {r \in Responses : (r.status = 200) <=> ContainsSuccess(StripLower(r.body))}

AIErrors == {"ConnectionError"}

\* Training happens before the attack, and there is one attack in a run.
Train == digits = 0 /\ TrainModel

AiRanked(m, d) == digits = 0 /\ AiAttack(m, d)

NextAI ==
    \/ Fingerprint
    \/ VerifyCheckProxy
    \/ \E r \in AIResponses : VerifyResponse(r)
    \/ \E e \in AIErrors : VerifyError(e)
    \/ Train
    \/ \E m \in 0..MaxAIAttempts, d \in 1..MaxAIDigits : AiRanked(m, d)
    \/ AiNext
    \/ AiCheck

SpecAI == InitAI /\ [][NextAI]_vars

\* ai_attack is running, or was ended by an exception.
InAiAttack ==
    \/ pc \in {"ai_next", "ai_check", "raised"}
    \/ pc \in {"verify_proxy", "verify_post"} /\ caller = "ai_attack"

\* The otps ai_attack has submitted so far.
AiSent == [k \in 1..(Len(sent) - sentAtStart) |-> sent[sentAtStart + k].otp]

\* C9: ai_attack on an engine whose classifier was never fitted makes no
\* verification attempt: no request is sent.
C9_NoAttemptUntrained ==
    (InAiAttack /\ ~classifier.fitted) =>
        /\ Len(sent) = sentAtStart
        /\ pc \notin {"verify_proxy", "verify_post"}

\* C10: ai_attack submits candidates in descending order of score, equal
\* scores in increasing numeric order: for submitted a before b,
\* score(a) > score(b), or score(a) = score(b) and a < b; and no candidate
\* left out outranks a submitted one.
C10_RankedOrder ==
    InAiAttack =>
        /\ \A a, b \in 1..Len(AiSent) :
              a < b =>
                 \/ predict_likelihood(AiSent[a]) > predict_likelihood(AiSent[b])
                 \/ /\ predict_likelihood(AiSent[a]) = predict_likelihood(AiSent[b])
                    /\ Value(AiSent[a]) < Value(AiSent[b])
        /\ Len(AiSent) > 0 =>
              LET last == AiSent[Len(AiSent)]
              IN  \A c \in 0..(Pow10(digits) - 1) :
                     \/ \E b \in 1..Len(AiSent) : Value(AiSent[b]) = c
                     \/ predict_likelihood(last) > predict_likelihood(Pad(c, digits))
                     \/ /\ predict_likelihood(last) = predict_likelihood(Pad(c, digits))
                        /\ Value(last) < c

\* C10's case: a classifier fitted on both labels, and an attack that has
\* submitted a top candidate, a lower one and two of equal score.
C10_Witness ==
    /\ InAiAttack
    /\ classifier.fitted /\ classifier.n_classes = 2
    /\ \E a, b \in 1..Len(AiSent) :
          a < b /\ predict_likelihood(AiSent[a]) > predict_likelihood(AiSent[b])
    /\ \E a, b \in 1..Len(AiSent) :
          a < b /\ predict_likelihood(AiSent[a]) = predict_likelihood(AiSent[b])

\* C19: a strategy called with max_attempts never issues more than
\* max_attempts verification calls, for every max_attempts >= 0 (none at all
\* when max_attempts = 0) and whatever the answers are.
C19_AtMostMaxAttempts ==
    InAiAttack => Len(sent) - sentAtStart <= max_attempts

-----------------------------------------------------------------------------
(* OTPAttacker beside a fresh engine: one strategy in a run *)

InitAttack ==
    /\ InitEngine
    /\ ~proxies
    /\ InitMain
    /\ InitNoMonitor
    /\ InitAttacker
    /\ InitNoFile

\* The candidate of replay_attack and race_attack.
KnownOtps == {Pad(123456, 6)}

\* No strategy has been called yet.
Fresh == apc = "idle" /\ sent = <<>> /\ tasks = <<>> /\ n = 0 /\ count = 0

Replay(o) == Fresh /\ ReplayAttack(o)
Random(a) == Fresh /\ RandomBypass(a)
Race(o, a) == Fresh /\ RaceAttack(o, a)

NextAttack ==
    \/ \E o \in KnownOtps : Replay(o)
    \/ \E r \in Responses : ReplayCall(r)
    \/ \E e \in TransportErrors : ReplayRaise(e)
    \/ ReplayReturn
    \/ \E a \in 1..MaxRace : Random(a)
    \/ \E o \in RandomOtps, r \in Responses : RandomCall(o, r)
    \/ \E o \in RandomOtps, e \in TransportErrors : RandomRaise(o, e)
    \/ RandomReturn
    \/ \E o \in KnownOtps, a \in 0..MaxRace : Race(o, a)
    \/ \E k \in 1..MaxRace : TaskStart(k)
    \/ \E k \in 1..MaxRace, r \in Responses : TaskCall(k, r)
    \/ \E k \in 1..MaxRace, e \in TransportErrors : TaskRaise(k, e)
    \/ RaceCollect
    \/ RaceCollectRaise
    \/ RaceCollected
    \/ RaceShutdown

SpecAttack == InitAttack /\ [][NextAttack]_vars

\* race_attack has come to its end, by return or by exception.
RaceOver == Len(tasks) > 0 /\ apc \in {"idle", "raised"}

\* C2: race_attack with attempts = N issues exactly N calls, returns only
\* when all N have completed, returns exactly N results and leaves exactly N
\* new records in the history.
C2_RaceAllRecorded ==
    RaceOver =>
        /\ Len(sent) = n
        /\ \A k \in 1..n : tasks[k].state \in {"done", "failed"}
        /\ apc = "idle"
        /\ Len(results) = n
        /\ Len(history) = n

\* C7: a transport failure of one verification call never leaves a strategy
\* as an exception.
C7_NoTransportException == raised \notin TransportErrors

\* replay_attack has come to its end, by return or by exception.
ReplayOver ==
    /\ known_otp # <<>> /\ tasks = <<>> /\ Len(sent) > 0
    /\ apc \in {"idle", "raised"}

\* C17: replay_attack submits the one candidate exactly three times, one call
\* after the other, and returns exactly three outcomes in call order,
\* whatever the outcomes are.
C17_ReplayThree ==
    /\ apc = "replay" =>
          /\ Len(sent) = count
          /\ Len(results) = count
    /\ ReplayOver =>
          /\ apc = "idle"
          /\ Len(sent) = 3
          /\ \A k \in 1..Len(sent) : sent[k].otp = known_otp
          /\ Len(results) = 3

-----------------------------------------------------------------------------
(* The engine's operations in any order: verify, train_model,               *)
(* predict_likelihood, save_state, load_state; and send_otp beside them     *)

\* A failed attempt, as an earlier run recorded it.
FailedAnswer == [status |-> 400, body |-> "Invalid OTP", time |-> 1]

\* What an earlier run of the engine may have left in the state file.
EarlierHistories == {<<Record(Pad(0, MaxAIDigits), FailedAnswer)>>}

InitFiles == {Missing} \cup {Written(h) : h \in EarlierHistories}

InitPersist ==
    /\ InitEngine
    /\ ~proxies
    /\ InitMain
    /\ InitNoMonitor
    /\ InitAttacker
    /\ state_file \in InitFiles

\* The candidate the script asks a likelihood for.
PredictOtps == {Pad(1, MaxAIDigits)}

\* The script runs until an exception leaves it; at most MaxStoredCalls
\* verify calls.
Running == apc = "idle"

PersistVerify ==
    Running /\ Len(sent) < MaxStoredCalls /\ Verify(Pad(0, MaxAIDigits))
PersistTrain == Running /\ TrainModel
Predict(o) == Running /\ PredictLikelihood(o)
Save(outcome) == Running /\ SaveState(outcome)
LoadFile(readable) == Running /\ LoadState(readable)

NextPersist ==
    \/ PersistVerify
    \/ VerifyCheckProxy
    \/ \E r \in AIResponses : VerifyResponse(r)
    \/ \E e \in AIErrors : VerifyError(e)
    \/ PersistTrain
    \/ \E o \in PredictOtps : Predict(o)
    \/ \E outcome \in SaveOutcomes : Save(outcome)
    \/ \E readable \in BOOLEAN : LoadFile(readable)
    \/ \E m \in Methods, r \in AIResponses : SendOtp(m, r)
    \/ \E m \in Methods, e \in AIErrors : SendOtpRaise(m, e)

SpecPersist == InitPersist /\ [][NextPersist]_vars

IsPrefix(s, t) == Len(s) <= Len(t) /\ SubSeq(t, 1, Len(s)) = s

\* C11: the history is append-only: over every step of the engine the
\* history before the step is a prefix of the history after it.
C11_AppendOnly == [][IsPrefix(history, history')]_vars

\* C12: load_state with the state file missing, or holding malformed
\* content, raises nothing and leaves the history empty, whatever the
\* history held before the call.
C12_LoadFailsOpenEmpty ==
    [][ ( /\ \E readable \in BOOLEAN : LoadState(readable)
          /\ ~state_file.exists \/ ~state_file.complete )
        => (history' = <<>> /\ raised' = None) ]_vars

\* The model was never trained, or its last training saw no success label.
NoSuccessSeen ==
    \/ ~trainedOn.done
    \/ \A k \in 1..Len(trainedOn.history) : ~Hit(trainedOn.history[k])

\* C13: predict_likelihood returns 0.0 for every candidate (a call returns a
\* value: what it catches is a 0.0) when the model was never trained or its
\* last training saw no success label, also after an earlier training on both
\* labels.
C13_FailsClosed ==
    NoSuccessSeen =>
        /\ \A o \in PredictOtps : predict_likelihood(o) = 0
        /\ lastOp = "predict" => likelihood.p = 0

\* C13's case: a training on both labels, then one on a history with only
\* fail labels, then a predict_likelihood call.
C13_Witness ==
    /\ trainedOn.done /\ trainedOn.both /\ NoSuccessSeen
    /\ classifier.fitted
    /\ lastOp = "predict" /\ likelihood.otp # <<>> /\ likelihood.p = 0

\* C15: save_state on a non-empty history h followed at once by load_state
\* leaves the history equal to h: the same records in the same order, each
\* with its otp, status, text and time.
C15_RoundTrip ==
    /\ [][ ( /\ \E readable \in BOOLEAN : LoadState(readable)
             /\ lastOp = "save"
             /\ history # <<>> )
           => history' = history ]_vars
    /\ []((lastOp = "reload" /\ history # <<>>) =>
             /\ state_file = Written(history)
             /\ \A k \in 1..Len(history) :
                   DOMAIN history[k] = {"otp", "status", "text", "time"})

\* C15's case: two different records were saved and read back.
C15_Witness ==
    /\ lastOp = "reload"
    /\ Len(history) = 2
    /\ history[1] # history[2]
    /\ state_file = Written(history)

\* The step is a send_otp call, answered or not.
IsSendOtp ==
    \/ \E m \in Methods, r \in Responses : SendOtp(m, r)
    \/ \E m \in Methods, e \in TransportErrors : SendOtpRaise(m, e)

\* C18: a send_otp call, answered or failed, appends no record and changes
\* neither the model nor the proxy liveness flag, nor the state file.
C18_ResendFrame ==
    [][IsSendOtp => UNCHANGED <<history, encoder, classifier, alive, running,
                                proxies, state_file, sent>>]_vars

\* C18's case: a resend was answered on an engine that holds records and a
\* fitted model.
C18_Witness ==
    /\ lastOp = "resend" /\ resend.status # 0
    /\ history # <<>>
    /\ classifier.fitted

\* C20: every train_model call rebuilds the model as a whole from the
\* history of that call: after it the label mapping and the classifier both
\* come from that history (an untrained model when the history is empty),
\* and nothing fitted by an earlier call is left in use.
C20_RebuiltAsAWhole ==
    [][ TrainModel =>
          LET y == {Label(history[k]) : k \in 1..Len(history)}
          IN  IF history = <<>>
              THEN encoder' = {} /\ classifier' = Unfitted
              ELSE encoder' = y /\ classifier' \in Fitted(y) ]_vars

-----------------------------------------------------------------------------
(* The sequential strategy asked for more attempts than there are            *)
(* candidates of the width; the target answers every call                    *)

\* adaptive_attack(10^d + 1, d), once.
Overflowing(d) == digits = 0 /\ AdaptiveAttack(Pow10(d) + 1, d)

NextWidth ==
    \/ \E d \in 1..MaxAIDigits : Overflowing(d)
    \/ AdaptiveNext
    \/ AdaptiveCheck
    \/ VerifyCheckProxy
    \/ \E r \in Responses : VerifyResponse(r)

SpecWidth == InitSequential /\ [][NextWidth]_vars

\* C14: every record a strategy of an engine of digit width d produces has
\* an otp of exactly d digits, whatever max_attempts is.
C14_WidthExact ==
    digits > 0 => \A k \in 1..Len(history) : Len(history[k].otp) = digits

-----------------------------------------------------------------------------
(* The monitor thread under a fair scheduler, and stop()                     *)

InitStop ==
    /\ InitEngine
    /\ InitMain
    /\ InitMonitor
    /\ InitAttacker
    /\ InitNoFile

NextStop ==
    \/ ProxyToggle
    \/ MonitorStart
    \/ MonitorLoop
    \/ MonitorProbe
    \/ MonitorDown
    \/ MonitorAbort
    \/ MonitorSleep
    \/ MonitorStop

\* The thread, once started, is scheduled again and again; the probe returns
\* (its connection attempt has a timeout of 2 s) and so does the sleep.
MonitorFairness ==
    /\ WF_vars(MonitorLoop)
    /\ WF_vars(MonitorProbe)
    /\ WF_vars(MonitorDown)
    /\ WF_vars(MonitorAbort)
    /\ WF_vars(MonitorSleep)

SpecStop == InitStop /\ [][NextStop]_vars /\ MonitorFairness

\* C16: once stop() has set running to False the started monitor loop ends,
\* after at most one more probe, and alive changes after stop() only by the
\* write of False that follows a failed probe.
C16_CooperativeStop ==
    /\ (~running /\ mpc # "unstarted") ~> (mpc = "done")
    /\ [](probesAfterStop <= 1)
    /\ [][(~running /\ alive' # alive) => (mpc = "down" /\ ~alive')]_vars

\* C16's case: stop() came while a probe was under way; the probe found the
\* proxy up, the loop then ended and alive is still True.
C16_Witness ==
    /\ ~running /\ mpc = "done" /\ ~exited
    /\ probesAfterStop = 1
    /\ alive

====
